---- MODULE Spec2Model ----
(***************************************************************************)
(* A model of src/librender/trimesh.cpp (Mitsuba's TriMesh): the           *)
(* standalone archive reader, the lazily built area distribution, the     *)
(* topology rebuilder and the mesh life cycle (load, computeNormals,      *)
(* computeUVTangents, configure, serialize).                              *)
(*                                                                         *)
(* One module, several specifications.  Each specification drives one      *)
(* group of variables and leaves the others at their initial value:       *)
(*   SpecLoad    loadCompressed's header and trailer navigation  (loader)  *)
(*   SpecSample  getSurfaceArea / samplePosition called by worker threads  *)
(*   SpecTopo    rebuildTopology applied to a constructed mesh     (mesh)  *)
(*   SpecCodec   the standalone serialize and its reader           (mesh)  *)
(*   SpecLife    construction and the calls made on a mesh         (mesh)  *)
(***************************************************************************)
EXTENDS Integers, Sequences, FiniteSets, TLC

VARIABLES
    loader,            \* loadCompressed: the archive, the request, the position
    triAreas,          \* sampler: area of each triangle of the mesh
    m_surfaceArea,     \* sampler: cached total area, -1 until built
    m_invSurfaceArea,  \* sampler: cached reciprocal <<num, den>>, <<-1, 1>> until built
    m_areaDistr,       \* sampler: the values appended to the area distribution
    m_mutex,           \* sampler: 0 when free, else the thread holding the lock
    th,                \* sampler: each worker thread's position and last results
    builders,          \* sampler: the threads that entered the build, in order
    mesh,              \* mesh: the TriMesh object's fields
    bsdf,              \* mesh: the attached material's capabilities
    build,             \* mesh: how the program was compiled
    call,              \* mesh: the last call made on the mesh and how it ended
    stream,            \* mesh: the values written to / read from the stream
    source             \* mesh: what the mesh is constructed from

loadVars == <<loader>>
sampVars == <<triAreas, m_surfaceArea, m_invSurfaceArea, m_areaDistr, m_mutex,
              th, builders>>
meshVars == <<mesh, bsdf, build, call, stream, source>>
vars == <<loadVars, sampVars, meshVars>>

(***************************************************************************)
(* Program constants                                                       *)
(***************************************************************************)
MTS_FILEFORMAT_HEADER == 1052        \* 0x041C
MTS_FILEFORMAT_VERSION_V3 == 3
MTS_FILEFORMAT_VERSION_V4 == 4
LegacyHeader == 7172                 \* 0x1C04

(***************************************************************************)
(* Bounds                                                                  *)
(***************************************************************************)
MaxCount == 3          \* most segments an archive of the model holds
BodyBytes == 8         \* bytes of one segment's compressed body

(***************************************************************************)
(* The standalone archive, as the bytes loadCompressed navigates.          *)
(* Segment k starts at SegmentStart(k) with two shorts (magic, version)   *)
(* followed by its compressed body.  The trailer holds one offset per     *)
(* segment (8 bytes each in version 4, 4 bytes in version 3) and then the *)
(* 4-byte segment count.                                                   *)
(***************************************************************************)
OffsetBytes(version) == IF version = MTS_FILEFORMAT_VERSION_V4 THEN 8 ELSE 4

SegmentBytes == 4 + BodyBytes

SegmentStart(k) == k * SegmentBytes

TrailerStart(count) == count * SegmentBytes

StreamSize(version, count) ==
    TrailerStart(count) + count * OffsetBytes(version) + 4

\* The fields of the archive: where each starts, its length, what it holds.
ArchiveFields(format, version, count) ==
    {[at |-> SegmentStart(k), len |-> 2, kind |-> "magic", val |-> format]
        : k \in 0..(count-1)}
    \cup {[at |-> SegmentStart(k) + 2, len |-> 2, kind |-> "version", val |-> version]
        : k \in 0..(count-1)}
    \cup {[at |-> SegmentStart(k) + 4, len |-> BodyBytes, kind |-> "body", val |-> k]
        : k \in 0..(count-1)}
    \cup {[at |-> TrailerStart(count) + k * OffsetBytes(version),
           len |-> OffsetBytes(version), kind |-> "offset", val |-> SegmentStart(k)]
        : k \in 0..(count-1)}
    \cup {[at |-> StreamSize(version, count) - 4, len |-> 4, kind |-> "count",
           val |-> count]}

\* A read of len bytes at pos: the stored value when a field of that length
\* starts there, "eof" when the read runs past the end of the stream, and
\* "garbage" (bytes of other fields reinterpreted) otherwise.
ReadAt(format, version, count, pos, len) ==
    LET hit == {f \in ArchiveFields(format, version, count) :
                    f.at = pos /\ f.len = len}
    IN  IF pos < 0 \/ pos + len > StreamSize(version, count)
        THEN [ok |-> FALSE, kind |-> "eof", val |-> 0]
        ELSE IF hit # {}
        THEN LET f == CHOOSE f \in hit : TRUE
             IN  [ok |-> TRUE, kind |-> f.kind, val |-> f.val]
        ELSE [ok |-> TRUE, kind |-> "garbage", val |-> 0]

\* The field (if any) that holds byte pos.
FieldAt(format, version, count, pos) ==
    {f \in ArchiveFields(format, version, count) :
        f.at <= pos /\ pos < f.at + f.len}

(***************************************************************************)
(* TriMesh::loadCompressed, lines 175-222: the part before the mesh body.  *)
(* Log(EError, ...) throws: the operation ends there ("fatal").            *)
(***************************************************************************)
Indices == (0 - 2)..(MaxCount + 2)

LoaderIdle == loader = [pc |-> "unused"]

\* Steps of loadCompressed touch nothing but the loader.
OnlyLoader == UNCHANGED <<sampVars, meshVars>>

LoaderInit ==
    \E little \in BOOLEAN, format \in {MTS_FILEFORMAT_HEADER, LegacyHeader, 0},
       version \in {MTS_FILEFORMAT_VERSION_V3, MTS_FILEFORMAT_VERSION_V4, 5},
       count \in 1..MaxCount, index \in Indices :
        loader = [pc |-> "start", little |-> little, format |-> format,
                  version |-> version, count |-> count, index |-> index,
                  pos |-> 0, readCount |-> 0 - 1, fatal |-> "none",
                  seeks |-> <<>>, segmentSeek |-> 0 - 1, opened |-> 0 - 1,
                  bodyRead |-> 0 - 1]

\* line 203: the range check of the requested index.
IndexOutOfRange(index, count) == index < 0 \/ index > count

\* lines 178-194: byte order, magic and version checks.
LoadHeader ==
    /\ OnlyLoader
    /\ loader.pc = "start"
    /\ LET fmt == ReadAt(loader.format, loader.version, loader.count, 0, 2)
           ver == ReadAt(loader.format, loader.version, loader.count, 2, 2)
       IN  IF ~loader.little
           THEN loader' = [loader EXCEPT !.pc = "done", !.fatal = "byteorder"]
           ELSE IF fmt.val = LegacyHeader
           THEN loader' = [loader EXCEPT !.pc = "done", !.fatal = "legacy", !.pos = 2]
           ELSE IF fmt.val # MTS_FILEFORMAT_HEADER
           THEN loader' = [loader EXCEPT !.pc = "done", !.fatal = "format", !.pos = 2]
           ELSE IF ver.val # MTS_FILEFORMAT_VERSION_V3
                   /\ ver.val # MTS_FILEFORMAT_VERSION_V4
           THEN loader' = [loader EXCEPT !.pc = "done", !.fatal = "version", !.pos = 4]
           ELSE loader' = [loader EXCEPT !.pos = 4,
                              !.pc = IF loader.index # 0 THEN "trailer" ELSE "open"]

\* lines 197-207: seek to the count at the end of the stream, read it, check
\* the index against it.
LoadTrailerCount ==
    /\ OnlyLoader
    /\ loader.pc = "trailer"
    /\ LET size == StreamSize(loader.version, loader.count)
           cnt == ReadAt(loader.format, loader.version, loader.count, size - 4, 4)
       IN  IF IndexOutOfRange(loader.index, cnt.val)
           THEN loader' = [loader EXCEPT !.pc = "done", !.fatal = "index",
                              !.seeks = Append(@, size - 4), !.pos = size,
                              !.readCount = cnt.val]
           ELSE loader' = [loader EXCEPT !.pc = "offset",
                              !.seeks = Append(@, size - 4), !.pos = size,
                              !.readCount = cnt.val]

\* lines 210-216: seek to the index-th entry of the offset table, read it,
\* seek to the offset read.
LoadSeekSegment ==
    /\ OnlyLoader
    /\ loader.pc = "offset"
    /\ LET size == StreamSize(loader.version, loader.count)
           v4 == loader.version = MTS_FILEFORMAT_VERSION_V4
           at == IF v4
                 THEN size - 8 * (loader.readCount - loader.index) - 4
                 ELSE size - 4 * (loader.readCount - loader.index + 1)
           off == ReadAt(loader.format, loader.version, loader.count, at,
                         IF v4 THEN 8 ELSE 4)
       IN  IF ~off.ok
           THEN loader' = [loader EXCEPT !.pc = "done", !.fatal = "eof",
                              !.seeks = Append(@, at), !.pos = at]
           ELSE loader' = [loader EXCEPT !.pc = "skip",
                              !.seeks = Append(Append(@, at), off.val),
                              !.segmentSeek = off.val, !.pos = off.val]

\* line 218: skip the two header shorts of the segment.
LoadSkipHeader ==
    /\ OnlyLoader
    /\ loader.pc = "skip"
    /\ loader' = [loader EXCEPT !.pc = "open", !.pos = @ + 4]

\* lines 221-224: open the decompression view at the current position and
\* start reading the mesh body from it.
LoadOpenBody ==
    /\ OnlyLoader
    /\ loader.pc = "open"
    /\ LET at == FieldAt(loader.format, loader.version, loader.count, loader.pos)
           seg == IF at # {} /\ (CHOOSE f \in at : TRUE).kind = "body"
                     /\ (CHOOSE f \in at : TRUE).at = loader.pos
                  THEN (CHOOSE f \in at : TRUE).val
                  ELSE 0 - 2
       IN  loader' = [loader EXCEPT !.pc = "done", !.opened = loader.pos,
                                    !.bodyRead = seg]

LoadNext ==
    \/ LoadHeader
    \/ LoadTrailerCount
    \/ LoadSeekSegment
    \/ LoadSkipHeader
    \/ LoadOpenBody

(***************************************************************************)
(* The lazily built area distribution: prepareSamplingTable (339-354),    *)
(* getSurfaceArea (356-361) and samplePosition (363-373), called by       *)
(* worker threads.  Each statement that reads or writes a shared field is *)
(* one step; only the statements between the LockGuard's construction and *)
(* its destruction run under the mutex.                                    *)
(***************************************************************************)
MaxThreads == 2        \* worker threads
MaxCalls == 2          \* calls each worker makes
MaxTriangles == 3      \* most triangles of a sampled mesh

Threads == 1..MaxThreads

\* Meshes by the areas of their triangles (Triangle::surfaceArea is >= 0).
AreaLists == {<<>>, <<2>>, <<0>>, <<1, 2>>, <<2, 0, 1>>, <<1, 1, 2, 1>>}

Unbuilt == 0 - 1

RECURSIVE SumSeq(_)
\* DiscreteDistribution::normalize returns the sum of the appended values.
SumSeq(s) == IF s = <<>> THEN 0 ELSE Head(s) + SumSeq(Tail(s))

\* 1.0f / x, as the fraction <<1, x>>.
Reciprocal(x) == <<1, x>>

NoResult == [op |-> "none", area |-> Unbuilt, pdf |-> <<0, 1>>, distLen |-> 0]

SamplerIdle ==
    /\ triAreas = <<>>
    /\ m_surfaceArea = Unbuilt
    /\ m_invSurfaceArea = <<Unbuilt, 1>>
    /\ m_areaDistr = <<>>
    /\ m_mutex = 0
    /\ th = <<>>
    /\ builders = <<>>

\* The constructors set m_surfaceArea = m_invSurfaceArea = -1 (51, 73, 141, 281).
SamplerInit ==
    /\ triAreas \in {a \in AreaLists : Len(a) <= MaxTriangles}
    /\ m_surfaceArea = Unbuilt
    /\ m_invSurfaceArea = <<Unbuilt, 1>>
    /\ m_areaDistr = <<>>
    /\ m_mutex = 0
    /\ th = [t \in Threads |-> [pc |-> "idle", op |-> "none", i |-> 0,
                                calls |-> 0, last |-> NoResult]]
    /\ builders = <<>>

m_triangleCount_s == Len(triAreas)

\* Steps of the sampler touch nothing but the sampler's state.
OnlySampler == UNCHANGED <<loadVars, meshVars>>

\* A worker calls getSurfaceArea or samplePosition.
BeginCall(t, op) ==
    /\ OnlySampler
    /\ th[t].pc = "idle"
    /\ th[t].calls < MaxCalls
    /\ th' = [th EXCEPT ![t].pc = "check", ![t].op = op]
    /\ UNCHANGED <<triAreas, m_surfaceArea, m_invSurfaceArea, m_areaDistr,
                   m_mutex, builders>>

\* lines 357 and 365: if (m_surfaceArea < 0) prepareSamplingTable(), read
\* without the lock.
NeedsBuild(area) == area < 0

CheckSentinel(t) ==
    /\ OnlySampler
    /\ th[t].pc = "check"
    /\ th' = [th EXCEPT ![t].pc = IF NeedsBuild(m_surfaceArea) THEN "prepare"
                                  ELSE "use"]
    /\ UNCHANGED <<triAreas, m_surfaceArea, m_invSurfaceArea, m_areaDistr,
                   m_mutex, builders>>

\* lines 340-343: an empty mesh is a fatal error (the call ends there).
PrepareEmpty(t) ==
    /\ OnlySampler
    /\ th[t].pc = "prepare"
    /\ m_triangleCount_s = 0
    /\ th' = [th EXCEPT ![t].pc = "idle", ![t].calls = @ + 1,
                        ![t].last = [NoResult EXCEPT !.op = "fatal"]]
    /\ UNCHANGED <<triAreas, m_surfaceArea, m_invSurfaceArea, m_areaDistr,
                   m_mutex, builders>>

\* line 345: LockGuard guard(m_mutex), blocking while another thread holds it.
LockFree(t) == m_mutex = 0

AcquireLock(t) ==
    /\ OnlySampler
    /\ th[t].pc = "prepare"
    /\ m_triangleCount_s # 0
    /\ LockFree(t)
    /\ m_mutex' = t
    /\ th' = [th EXCEPT ![t].pc = "locked"]
    /\ UNCHANGED <<triAreas, m_surfaceArea, m_invSurfaceArea, m_areaDistr,
                   builders>>

\* A build without the second check: whoever gets the lock builds.
NoRecheck(area) == TRUE

\* line 346: the check repeated under the lock.
StillUnbuilt(area) == area < 0

Recheck(t) ==
    /\ OnlySampler
    /\ th[t].pc = "locked"
    /\ IF StillUnbuilt(m_surfaceArea)
       THEN /\ th' = [th EXCEPT ![t].pc = "append", ![t].i = 0]
            /\ builders' = Append(builders, t)
       ELSE /\ th' = [th EXCEPT ![t].pc = "unlock"]
            /\ UNCHANGED builders
    /\ UNCHANGED <<triAreas, m_surfaceArea, m_invSurfaceArea, m_areaDistr,
                   m_mutex>>

\* lines 349-350: one iteration of the loop appending the triangle areas.
AppendArea(t) ==
    /\ OnlySampler
    /\ th[t].pc = "append"
    /\ th[t].i < m_triangleCount_s
    /\ m_areaDistr' = Append(m_areaDistr, triAreas[th[t].i + 1])
    /\ th' = [th EXCEPT ![t].i = @ + 1]
    /\ UNCHANGED <<triAreas, m_surfaceArea, m_invSurfaceArea, m_mutex, builders>>

\* line 351: m_surfaceArea = m_areaDistr.normalize().
StoreSurfaceArea(t) ==
    /\ OnlySampler
    /\ th[t].pc = "append"
    /\ th[t].i >= m_triangleCount_s
    /\ m_surfaceArea' = SumSeq(m_areaDistr)
    /\ th' = [th EXCEPT ![t].pc = "inverse"]
    /\ UNCHANGED <<triAreas, m_invSurfaceArea, m_areaDistr, m_mutex, builders>>

\* line 352: m_invSurfaceArea = 1.0f / m_surfaceArea.
StoreInvSurfaceArea(t) ==
    /\ OnlySampler
    /\ th[t].pc = "inverse"
    /\ m_invSurfaceArea' = Reciprocal(m_surfaceArea)
    /\ th' = [th EXCEPT ![t].pc = "unlock"]
    /\ UNCHANGED <<triAreas, m_surfaceArea, m_areaDistr, m_mutex, builders>>

\* line 354: the guard's destructor releases the mutex.
ReleaseLock(t) ==
    /\ OnlySampler
    /\ th[t].pc = "unlock"
    /\ m_mutex' = 0
    /\ th' = [th EXCEPT ![t].pc = "use"]
    /\ UNCHANGED <<triAreas, m_surfaceArea, m_invSurfaceArea, m_areaDistr,
                   builders>>

\* line 360: getSurfaceArea returns m_surfaceArea.
ReturnSurfaceArea(t) ==
    /\ OnlySampler
    /\ th[t].pc = "use"
    /\ th[t].op = "getSurfaceArea"
    /\ th' = [th EXCEPT ![t].pc = "idle", ![t].calls = @ + 1,
                        ![t].last = [NoResult EXCEPT !.op = "getSurfaceArea",
                                                     !.area = m_surfaceArea]]
    /\ UNCHANGED <<triAreas, m_surfaceArea, m_invSurfaceArea, m_areaDistr,
                   m_mutex, builders>>

\* lines 369-370: samplePosition picks a triangle from m_areaDistr.
SampleTriangle(t) ==
    /\ OnlySampler
    /\ th[t].pc = "use"
    /\ th[t].op = "samplePosition"
    /\ th' = [th EXCEPT ![t].pc = "pdf",
                        ![t].last = [NoResult EXCEPT !.op = "sampling",
                                                     !.distLen = Len(m_areaDistr)]]
    /\ UNCHANGED <<triAreas, m_surfaceArea, m_invSurfaceArea, m_areaDistr,
                   m_mutex, builders>>

\* line 371: pRec.pdf = m_invSurfaceArea, and the call returns.
ReturnSample(t) ==
    /\ OnlySampler
    /\ th[t].pc = "pdf"
    /\ th' = [th EXCEPT ![t].pc = "idle", ![t].calls = @ + 1,
                        ![t].last = [@ EXCEPT !.op = "samplePosition",
                                              !.pdf = m_invSurfaceArea]]
    /\ UNCHANGED <<triAreas, m_surfaceArea, m_invSurfaceArea, m_areaDistr,
                   m_mutex, builders>>

SampleNext ==
    \E t \in Threads :
        \/ \E op \in {"getSurfaceArea", "samplePosition"} : BeginCall(t, op)
        \/ CheckSentinel(t)
        \/ PrepareEmpty(t)
        \/ AcquireLock(t)
        \/ Recheck(t)
        \/ AppendArea(t)
        \/ StoreSurfaceArea(t)
        \/ StoreInvSurfaceArea(t)
        \/ ReleaseLock(t)
        \/ ReturnSurfaceArea(t)
        \/ SampleTriangle(t)
        \/ ReturnSample(t)

(***************************************************************************)
(* The mesh (TriMesh's fields) as a record:                                *)
(*   name, vertexCount, triangleCount, faceNormals, flipNormals            *)
(*   positions   sequence of points <<x, y, z>>; vertex i is at i + 1     *)
(*   normals, texcoords, colors, tangents, aabb                            *)
(*               None for a NULL pointer, Some(array) otherwise           *)
(*   triangles   sequence of <<idx0, idx1, idx2>>, 0-based vertex indices  *)
(***************************************************************************)
None == <<>>

Some(x) == <<x>>

Has(o) == Len(o) > 0

Get(o) == o[1]

\* 0xFFFFFFFFU, the index of a corner not yet remapped (line 468).  The
\* value itself exceeds TLC's 32-bit integers; the model uses the largest
\* one, which like 0xFFFFFFFF is above every vertex count.
Unassigned == 2147483647

Sub(a, b) == <<a[1] - b[1], a[2] - b[2], a[3] - b[3]>>

Neg(a) == <<0 - a[1], 0 - a[2], 0 - a[3]>>

Cross(a, b) ==
    <<a[2] * b[3] - a[3] * b[2], a[3] * b[1] - a[1] * b[3],
      a[1] * b[2] - a[2] * b[1]>>

IsZero(v) == \A k \in DOMAIN v : v[k] = 0

\* m_positions[idx]
PositionOf(m, idx) == m.positions[idx + 1]

\* Every index of every triangle addresses a vertex.
IndicesInRange(m) ==
    \A i \in DOMAIN m.triangles : \A j \in 1..3 :
        m.triangles[i][j] >= 0 /\ m.triangles[i][j] < m.vertexCount

\* cross(v1 - v0, v2 - v0) of triangle i (lines 463-466, 584, 653); exact
\* in floating point for the coordinates of the model.
FaceCross(m, i) ==
    LET t == m.triangles[i]
    IN  Cross(Sub(PositionOf(m, t[2]), PositionOf(m, t[1])),
              Sub(PositionOf(m, t[3]), PositionOf(m, t[1])))

(***************************************************************************)
(* Single-precision arithmetic.  A float is written as the integer of its  *)
(* IEEE-754 bit pattern without the sign bit, negated when the sign bit is *)
(* set: the order of these integers is the order of the floats.  The      *)
(* tables hold the results of the source's expressions evaluated in IEEE   *)
(* single precision (round to nearest) for every vector the meshes of the  *)
(* model produce.                                                          *)
(***************************************************************************)
NaNBits == 2143289344     \* 0x7FC00000, a quiet NaN

\* normalize(c), line 466
NormalizeTable ==
    { <<<<-10000, -3, 0>>, <<-1065353216, -966609233, 0>>>>  \* (-1, -0.000299999985, 0)
    , <<<<-10000, -2, 0>>, <<-1065353216, -961656599, 0>>>>  \* (-1, -0.000199999995, 0)
    , <<<<-1, -1, -1>>, <<-1058262330, -1058262330, -1058262330>>>>  \* (-0.577350259, -0.577350259, -0.577350259)
    , <<<<0, -1, 0>>, <<0, -1065353216, 0>>>>  \* (0, -1, 0)
    , <<<<0, -1, 10000>>, <<0, -953267991, 1065353216>>>>  \* (0, -9.99999975e-05, 1)
    , <<<<0, 0, -1>>, <<0, 0, -1065353216>>>>  \* (0, 0, -1)
    , <<<<0, 0, 0>>, <<2143289344, 2143289344, 2143289344>>>>  \* (-nan, -nan, -nan)
    , <<<<0, 0, 1>>, <<0, 0, 1065353216>>>>  \* (0, 0, 1)
    , <<<<0, 1, -10000>>, <<0, 953267991, -1065353216>>>>  \* (0, 9.99999975e-05, -1)
    , <<<<0, 1, 0>>, <<0, 1065353216, 0>>>>  \* (0, 1, 0)
    , <<<<1, 1, 1>>, <<1058262330, 1058262330, 1058262330>>>>  \* (0.577350259, 0.577350259, 0.577350259)
    , <<<<10000, 2, 0>>, <<1065353216, 961656599, 0>>>>  \* (1, 0.000199999995, 0)
    , <<<<10000, 3, 0>>, <<1065353216, 966609233, 0>>>>  \* (1, 0.000299999985, 0)
    }

\* dot(n1, n2), line 498
DotTable ==
    { <<<<-1, -1, -1>>, <<0, -1, 0>>, 1058262330>>  \* 0.577350259
    , <<<<-1, -1, -1>>, <<0, 0, -1>>, 1058262330>>  \* 0.577350259
    , <<<<-1, -1, -1>>, <<0, 0, 1>>, -1058262330>>  \* -0.577350259
    , <<<<-1, -1, -1>>, <<0, 1, 0>>, -1058262330>>  \* -0.577350259
    , <<<<-1, -1, -1>>, <<1, 1, 1>>, -1065353215>>  \* -0.99999994
    , <<<<0, -1, 0>>, <<0, 0, -1>>, 0>>  \* 0
    , <<<<0, -1, 0>>, <<0, 0, 1>>, 0>>  \* 0
    , <<<<0, -1, 0>>, <<0, 1, 0>>, -1065353216>>  \* -1
    , <<<<0, -1, 0>>, <<1, 1, 1>>, -1058262330>>  \* -0.577350259
    , <<<<0, 0, -1>>, <<0, 0, 1>>, -1065353216>>  \* -1
    , <<<<0, 0, -1>>, <<0, 1, 0>>, 0>>  \* 0
    , <<<<0, 0, -1>>, <<1, 1, 1>>, -1058262330>>  \* -0.577350259
    , <<<<0, 0, 1>>, <<0, 1, 0>>, 0>>  \* 0
    , <<<<0, 0, 1>>, <<1, 1, 1>>, 1058262330>>  \* 0.577350259
    , <<<<0, 1, 0>>, <<1, 1, 1>>, 1058262330>>  \* 0.577350259
    , <<<<-10000, -3, 0>>, <<-10000, -2, 0>>, 1065353217>>  \* 1.00000012
    , <<<<-10000, -3, 0>>, <<0, -1, 10000>>, 855693657>>  \* 2.99999989e-08
    , <<<<-10000, -3, 0>>, <<0, 1, -10000>>, -855693657>>  \* -2.99999989e-08
    , <<<<-10000, -3, 0>>, <<10000, 2, 0>>, -1065353217>>  \* -1.00000012
    , <<<<-10000, -3, 0>>, <<10000, 3, 0>>, -1065353217>>  \* -1.00000012
    , <<<<-10000, -2, 0>>, <<0, -1, 10000>>, 850119798>>  \* 1.99999981e-08
    , <<<<-10000, -2, 0>>, <<0, 1, -10000>>, -850119798>>  \* -1.99999981e-08
    , <<<<-10000, -2, 0>>, <<10000, 2, 0>>, -1065353216>>  \* -1
    , <<<<-10000, -2, 0>>, <<10000, 3, 0>>, -1065353217>>  \* -1.00000012
    , <<<<0, -1, 10000>>, <<0, 1, -10000>>, -1065353216>>  \* -1
    , <<<<0, -1, 10000>>, <<10000, 2, 0>>, -850119798>>  \* -1.99999981e-08
    , <<<<0, -1, 10000>>, <<10000, 3, 0>>, -855693657>>  \* -2.99999989e-08
    , <<<<0, 1, -10000>>, <<10000, 2, 0>>, 850119798>>  \* 1.99999981e-08
    , <<<<0, 1, -10000>>, <<10000, 3, 0>>, 855693657>>  \* 2.99999989e-08
    , <<<<10000, 2, 0>>, <<10000, 3, 0>>, 1065353217>>  \* 1.00000012
    }

\* cos(degToRad(maxAngle)), line 421
CosTable ==
    { <<0, 1065353216>>  \* 1
    , <<60, 1056964607>>  \* 0.49999997
    , <<90, -859553070>>  \* -4.37113883e-08
    , <<180, -1065353216>>  \* -1
    }

\* normalize(c): c / c.length(); the zero vector gives 0 * (1/0), NaN.
NormalizeF(c) == (CHOOSE e \in NormalizeTable : e[1] = c)[2]

\* Normal::operator==, false when a component is NaN.
FloatEqual3(n1, n2) ==
    \A k \in 1..3 : n1[k] # NaNBits /\ n2[k] # NaNBits /\ n1[k] = n2[k]

\* dot(normalize(c1), normalize(c2)); NaN when either normal is NaN.
DotF(c1, c2) ==
    IF IsZero(c1) \/ IsZero(c2) THEN NaNBits
    ELSE (CHOOSE e \in DotTable :
              (e[1] = c1 /\ e[2] = c2) \/ (e[1] = c2 /\ e[2] = c1))[3]

\* a > b on floats, false when either is NaN.
FloatGreater(a, b) == a # NaNBits /\ b # NaNBits /\ a > b

\* line 421: dpThresh = cos(degToRad(maxAngle)).
CosF(maxAngle) == (CHOOSE e \in CosTable : e[1] = maxAngle)[2]

\* A clustering test that lets every pair of faces through.
MergesAnything(c1, c2, dpThresh) == TRUE

\* line 498: n1 == n2 || dot(n1, n2) > dpThresh, for the face normals of
\* the cross products c1 and c2.
Merges(c1, c2, dpThresh) ==
    \/ FloatEqual3(NormalizeF(c1), NormalizeF(c2))
    \/ FloatGreater(DotF(c1, c2), dpThresh)

(***************************************************************************)
(* TriMesh::computeNormals, lines 544-616.                                 *)
(***************************************************************************)
\* A stored normal: its vector.  A synthesized one: the corners
\* <<triangle, corner>> whose angle-weighted face normals were summed, and
\* whether the sum was negated.
FileNormal(v) == [kind |-> "file", v |-> v, from |-> <<>>, neg |-> FALSE]

BogusNormal == [kind |-> "bogus", v |-> <<1, 0, 0>>, from |-> <<>>, neg |-> FALSE]

\* m_normals[i] *= -1
NegateNormal(n) ==
    IF n.kind = "smooth" THEN [n EXCEPT !.neg = ~@] ELSE [n EXCEPT !.v = Neg(@)]

\* std::swap(t.idx[0], t.idx[1])
SwapWinding(t) == <<t[2], t[1], t[3]>>

RECURSIVE Contributions(_, _, _)
\* lines 575-593: the corners that add to vertex idx's sum, scanning from
\* triangle i.  A triangle whose cross product has length 0 adds nothing.
Contributions(m, idx, i) ==
    IF i > Len(m.triangles) THEN <<>>
    ELSE LET here == IF IsZero(FaceCross(m, i)) THEN <<>>
                     ELSE LET js == {j \in 1..3 : m.triangles[i][j] = idx}
                          IN  [k \in 1..Cardinality(js) |->
                                 <<i, CHOOSE j \in js :
                                        Cardinality({x \in js : x < j}) = k - 1>>]
         IN  here \o Contributions(m, idx, i + 1)

\* lines 595-607: normalize the sum, negated when a flip was requested; a
\* zero sum gets the bogus direction.  The model keeps the terms of the
\* sum, not its value: the sum is zero when no corner contributed.
SmoothNormal(m, idx) ==
    LET from == Contributions(m, idx, 1)
    IN  IF from = <<>> THEN BogusNormal
        ELSE [kind |-> "smooth", v |-> <<0, 0, 0>>, from |-> from,
              neg |-> m.flipNormals]

\* A computeNormals whose face-normals branch consumes the request.
NormalsComputedOneShot(m) ==
    IF m.faceNormals
    THEN [m EXCEPT !.normals = None, !.faceNormals = FALSE,
                   !.triangles = IF m.flipNormals
                                 THEN [i \in DOMAIN @ |-> SwapWinding(@[i])]
                                 ELSE @]
    ELSE IF Has(m.normals) THEN m
    ELSE [m EXCEPT !.normals =
                      Some([i \in 1..m.vertexCount |-> SmoothNormal(m, i - 1)])]

\* lines 546-609: the branches of computeNormals.
NormalsComputed(m) ==
    IF m.faceNormals
    THEN [m EXCEPT !.normals = None,
                   !.triangles = IF m.flipNormals
                                 THEN [i \in DOMAIN @ |-> SwapWinding(@[i])]
                                 ELSE @]
    ELSE IF Has(m.normals)
    THEN [m EXCEPT !.normals =
                      IF m.flipNormals
                      THEN Some([i \in DOMAIN Get(@) |-> NegateNormal(Get(@)[i])])
                      ELSE @]
    ELSE [m EXCEPT !.normals =
                      Some([i \in 1..m.vertexCount |-> SmoothNormal(m, i - 1)])]

\* A computeNormals that clears the flip request in the vertex-normal
\* branch only.
ComputeNormalsClearInElse(m) ==
    IF m.faceNormals THEN NormalsComputed(m)
    ELSE [NormalsComputed(m) EXCEPT !.flipNormals = FALSE]

\* lines 544-616; line 611 clears the flip request after every branch.
ComputeNormals(m) == [NormalsComputed(m) EXCEPT !.flipNormals = FALSE]

\* computeNormals reads m_positions[tri.idx[..]] only when it synthesizes.
ComputeNormalsDefined(m) ==
    (~m.faceNormals /\ ~Has(m.normals)) => IndicesInRange(m)

(***************************************************************************)
(* TriMesh::computeUVTangents, lines 618-675.                              *)
(***************************************************************************)
NoBSDF == [has |-> FALSE, anisotropic |-> FALSE, glossy |-> FALSE,
           rayDiff |-> FALSE]

Scale(k, v) == <<k * v[1], k * v[2], k * v[3]>>

Add(a, b) == <<a[1] + b[1], a[2] + b[2], a[3] + b[3]>>

\* The tangent frame of triangle i: zeroed by the memset and left so when
\* the geometric normal has length 0 (lines 655-658), the basis that
\* coordinateSystem builds around the normal when the UV determinant is 0
\* (661-664), and otherwise the solution of the 2x2 system (666-668), kept
\* as the numerators over the determinant.
TangentOf(m, i) ==
    LET t == m.triangles[i]
        uv == Get(m.texcoords)
        dP1 == Sub(PositionOf(m, t[2]), PositionOf(m, t[1]))
        dP2 == Sub(PositionOf(m, t[3]), PositionOf(m, t[1]))
        dUV1 == <<uv[t[2] + 1][1] - uv[t[1] + 1][1], uv[t[2] + 1][2] - uv[t[1] + 1][2]>>
        dUV2 == <<uv[t[3] + 1][1] - uv[t[1] + 1][1], uv[t[3] + 1][2] - uv[t[1] + 1][2]>>
        n == Cross(dP1, dP2)
        determinant == dUV1[1] * dUV2[2] - dUV1[2] * dUV2[1]
    IN  IF IsZero(n)
        THEN [kind |-> "zero", dpdu |-> <<0, 0, 0>>, dpdv |-> <<0, 0, 0>>,
              det |-> 1, around |-> <<0, 0, 0>>]
        ELSE IF determinant = 0
        THEN [kind |-> "basis", dpdu |-> <<0, 0, 0>>, dpdv |-> <<0, 0, 0>>,
              det |-> 1, around |-> n]
        ELSE [kind |-> "solved",
              dpdu |-> Sub(Scale(dUV2[2], dP1), Scale(dUV1[2], dP2)),
              dpdv |-> Add(Scale(0 - dUV2[1], dP1), Scale(dUV1[1], dP2)),
              det |-> determinant, around |-> <<0, 0, 0>>]

\* line 660: the determinant of the UV edges of triangle i.
UVDeterminant(m, i) ==
    LET t == m.triangles[i]
        uv == Get(m.texcoords)
    IN  (uv[t[2] + 1][1] - uv[t[1] + 1][1]) * (uv[t[3] + 1][2] - uv[t[1] + 1][2])
        - (uv[t[2] + 1][2] - uv[t[1] + 1][2]) * (uv[t[3] + 1][1] - uv[t[1] + 1][1])

\* A count that also takes in the triangles with a degenerate
\* parameterization.
DegenerateCountWithUV(m) ==
    Cardinality({i \in 1..m.triangleCount :
                    IsZero(FaceCross(m, i)) \/ UVDeterminant(m, i) = 0})

\* lines 655-657: the triangles counted as degenerate.
DegenerateCount(m) ==
    Cardinality({i \in 1..m.triangleCount : IsZero(FaceCross(m, i))})

\* line 621: hasBSDF() && m_bsdf->getType() & BSDF::EAnisotropic
Anisotropic(b) == b.has /\ b.anisotropic

\* A computeUVTangents that fails on every texcoord-less mesh.
TexcoordsRequiredAlways(b) == TRUE

\* lines 620-628: without texcoords the call is fatal for an anisotropic
\* material.
TexcoordsRequired(b) == Anisotropic(b)

\* The result: the mesh, whether the call ended in the fatal error, and
\* the count of degenerate triangles that is logged.
ComputeUVTangents(m, b) ==
    IF ~Has(m.texcoords)
    THEN [mesh |-> m, fatal |-> TexcoordsRequired(b), degenerate |-> 0]
    ELSE IF Has(m.tangents)
    THEN [mesh |-> m, fatal |-> FALSE, degenerate |-> 0]
    ELSE LET tan == [i \in 1..m.triangleCount |-> TangentOf(m, i)]
         IN  [mesh |-> [m EXCEPT !.tangents = Some(tan)], fatal |-> FALSE,
              degenerate |-> DegenerateCount(m)]

\* computeUVTangents reads m_positions[idx] and m_texcoords[idx] of every
\* triangle when it builds the frames.
ComputeUVTangentsDefined(m) ==
    (Has(m.texcoords) /\ ~Has(m.tangents)) => IndicesInRange(m)

(***************************************************************************)
(* TriMesh::configure, lines 312-337.                                      *)
(***************************************************************************)
RECURSIVE BoxOf(_, _)
\* m_aabb.expandBy(m_positions[i]) for the first n vertices, from an
\* invalid (empty) box.
BoxOf(m, n) ==
    IF n = 0 THEN None
    ELSE LET p == m.positions[n]
             b == BoxOf(m, n - 1)
         IN  IF ~Has(b) THEN Some([min |-> p, max |-> p])
             ELSE Some([min |-> [k \in 1..3 |->
                                   IF p[k] < Get(b).min[k] THEN p[k] ELSE Get(b).min[k]],
                        max |-> [k \in 1..3 |->
                                   IF p[k] > Get(b).max[k] THEN p[k] ELSE Get(b).max[k]]])

\* The outcome of a call: the mesh and how the call ended: "ok", "fatal"
\* (Log(EError) threw) or "undefined" (an index out of range was
\* dereferenced).
TangentsStep(m, b, wanted) ==
    IF ~wanted THEN [mesh |-> m, status |-> "ok"]
    ELSE IF ~ComputeUVTangentsDefined(m) THEN [mesh |-> m, status |-> "undefined"]
    ELSE LET r == ComputeUVTangents(m, b)
         IN  [mesh |-> r.mesh, status |-> IF r.fatal THEN "fatal" ELSE "ok"]

Configure(m, b) ==
    LET boxed == IF Has(m.aabb) THEN m
                 ELSE [m EXCEPT !.aabb = BoxOf(m, m.vertexCount)]
    IN  IF ~ComputeNormalsDefined(boxed)
        THEN [mesh |-> boxed, status |-> "undefined"]
        ELSE LET first == TangentsStep(ComputeNormals(boxed), b,
                                       b.has /\ (b.anisotropic \/ b.rayDiff))
             IN  IF first.status # "ok" THEN first
                 ELSE TangentsStep(first.mesh, b, b.has /\ b.glossy)

(***************************************************************************)
(* TriMesh::rebuildTopology, lines 418-542.                                *)
(***************************************************************************)
\* A key that holds the position alone.
VertexKeyPositionOnly(m, idx) ==
    [p |-> PositionOf(m, idx), uv |-> <<0, 0>>, col |-> <<0, 0, 0>>]

\* struct Vertex, and lines 454-460: the key of vertex idx.  A mesh without
\* texcoords or colors keys on the zeros of Vertex's constructor.
VertexKey(m, idx) ==
    [p |-> PositionOf(m, idx),
     uv |-> IF Has(m.texcoords) THEN Get(m.texcoords)[idx + 1] ELSE <<0, 0>>,
     col |-> IF Has(m.colors) THEN Get(m.colors)[idx + 1] ELSE <<0, 0, 0>>]

RECURSIVE LexCompare(_, _)
LexCompare(a, b) ==
    IF a = <<>> THEN 0
    ELSE IF Head(a) < Head(b) THEN 0 - 1
    ELSE IF Head(a) > Head(b) THEN 1
    ELSE LexCompare(Tail(a), Tail(b))

\* vertex_key_order::compare, lines 385-401.
CompareKeys(v1, v2) == LexCompare(v1.p \o v1.uv \o v1.col, v2.p \o v2.uv \o v2.col)

RECURSIVE SortKeys(_)
\* The distinct keys in the order the multimap iterates them.
SortKeys(S) ==
    IF S = {} THEN <<>>
    ELSE LET least == CHOOSE k \in S : \A o \in S : CompareKeys(k, o) <= 0
         IN  <<least>> \o SortKeys(S \ {least})

RECURSIVE Occurrences(_, _, _)
\* lines 452-462: the triangles inserted under key, one entry per corner
\* that has the key, in insertion order (equal keys keep it).
Occurrences(m, key, i) ==
    IF i > Len(m.triangles) THEN <<>>
    ELSE LET n == Cardinality({j \in 1..3 : VertexKey(m, m.triangles[i][j]) = key})
         IN  [k \in 1..n |-> i] \o Occurrences(m, key, i + 1)

\* lines 499-504: every corner of triangle tri at position p gets vertexIdx.
AssignCorners(m, newTri, tri, p, vertexIdx) ==
    [i \in 1..3 |-> IF PositionOf(m, tri[i]) = p THEN vertexIdx ELSE newTri[i]]

RECURSIVE Absorb(_, _, _, _, _, _, _, _)
\* lines 492-507: from entry b on, absorb into the cluster seeded by entry a
\* every unclustered entry whose face normal passes the crease test.
Absorb(m, key, bucket, a, b, vertexIdx, dpThresh, st) ==
    IF b > Len(bucket) THEN st
    ELSE IF ~st.clustered[b]
            /\ Merges(FaceCross(m, bucket[a]), FaceCross(m, bucket[b]), dpThresh)
    THEN Absorb(m, key, bucket, a, b + 1, vertexIdx, dpThresh,
                [st EXCEPT !.clustered[b] = TRUE,
                           !.newTriangles[bucket[b]] =
                               AssignCorners(m, @, m.triangles[bucket[b]],
                                             key.p, vertexIdx)])
    ELSE Absorb(m, key, bucket, a, b + 1, vertexIdx, dpThresh, st)

RECURSIVE ClusterBucket(_, _, _, _, _, _)
\* lines 478-508: the greedy clustering of one key's entries.
ClusterBucket(m, key, bucket, a, dpThresh, st) ==
    IF a > Len(bucket) THEN st
    ELSE IF st.clustered[a]
    THEN ClusterBucket(m, key, bucket, a + 1, dpThresh, st)
    ELSE LET vertexIdx == Len(st.newVertices)
             seeded == [st EXCEPT !.newVertices = Append(@, key)]
         IN  ClusterBucket(m, key, bucket, a + 1, dpThresh,
                 Absorb(m, key, bucket, a, a, vertexIdx, dpThresh, seeded))

RECURSIVE ClusterKeys(_, _, _, _)
\* lines 473-511: the buckets in key order.
ClusterKeys(m, keys, dpThresh, st) ==
    IF keys = <<>> THEN st
    ELSE LET bucket == Occurrences(m, Head(keys), 1)
             done == ClusterBucket(m, Head(keys), bucket, 1, dpThresh,
                        [st EXCEPT !.clustered = [b \in 1..Len(bucket) |-> FALSE]])
         IN  ClusterKeys(m, Tail(keys), dpThresh, done)

\* lines 438-511: the new vertices and the remapped triangles.
Clustering(m, maxAngle) ==
    LET keys == SortKeys({VertexKey(m, m.triangles[i][j]) :
                             i \in DOMAIN m.triangles, j \in 1..3})
        st == ClusterKeys(m, keys, CosF(maxAngle),
                  [newVertices |-> <<>>,
                   newTriangles |-> [i \in DOMAIN m.triangles |->
                                       <<Unassigned, Unassigned, Unassigned>>],
                   clustered |-> <<>>])
    IN  [newVertices |-> st.newVertices, newTriangles |-> st.newTriangles]

\* lines 513-515: the assertion holds.
AllAssigned(newTriangles) ==
    \A i \in DOMAIN newTriangles : \A j \in 1..3 : newTriangles[i][j] # Unassigned

\* lines 517-536: the buffers replaced by the rebuilt ones.
Rebuilt(m, c) ==
    [m EXCEPT !.normals = None, !.tangents = None,
              !.triangles = c.newTriangles,
              !.positions = [i \in 1..Len(c.newVertices) |-> c.newVertices[i].p],
              !.texcoords = IF Has(@)
                            THEN Some([i \in 1..Len(c.newVertices) |-> c.newVertices[i].uv])
                            ELSE @,
              !.colors = IF Has(@)
                         THEN Some([i \in 1..Len(c.newVertices) |-> c.newVertices[i].col])
                         ELSE @,
              !.vertexCount = Len(c.newVertices)]

\* The whole call.  It reads m_positions[tri.idx[j]] of every corner, so it
\* is undefined on a mesh with an index out of range.  With assertions
\* compiled in, an unassigned corner ends it in the assertion's exception
\* after the normals and tangents were dropped; without them the sentinel
\* stays in the triangles and configure runs on them.
RebuildTopology(m, b, maxAngle, asserts) ==
    IF ~IndicesInRange(m)
    THEN [mesh |-> m, status |-> "undefined", remap |-> <<>>,
          newVertices |-> <<>>]
    ELSE LET c == Clustering(m, maxAngle)
         IN  IF asserts /\ ~AllAssigned(c.newTriangles)
             THEN [mesh |-> [m EXCEPT !.normals = None, !.tangents = None],
                   status |-> "assert", remap |-> c.newTriangles,
                   newVertices |-> c.newVertices]
             ELSE LET r == Configure(Rebuilt(m, c), b)
                  IN  [mesh |-> r.mesh, status |-> r.status,
                       remap |-> c.newTriangles,
                       newVertices |-> c.newVertices]

(***************************************************************************)
(* The mesh object and the calls made on it.                               *)
(***************************************************************************)
\* TriMesh(const Properties &), lines 55-75: no buffers yet.
Unloaded ==
    [name |-> "", vertexCount |-> 0, triangleCount |-> 0,
     faceNormals |-> FALSE, flipNormals |-> FALSE, positions |-> <<>>,
     normals |-> None, texcoords |-> None, colors |-> None,
     tangents |-> None, aabb |-> None, triangles |-> <<>>]

NoCall ==
    [op |-> "none", status |-> "ok", n |-> 0, angle |-> 0, before |-> Unloaded,
     remap |-> <<>>, newVertices |-> <<>>, degenerate |-> 0, reads |-> <<>>]

NoSource == [form |-> "none", payload |-> Unloaded, little |-> TRUE]

DefaultBuild == [asserts |-> TRUE, double |-> FALSE]

MeshIdle ==
    /\ mesh = Unloaded
    /\ bsdf = NoBSDF
    /\ build = DefaultBuild
    /\ call = NoCall
    /\ stream = <<>>
    /\ source = NoSource

\* Calls on the mesh touch nothing but the mesh's state.
OnlyMesh == UNCHANGED <<loadVars, sampVars>>

\* TriMesh(name, triangleCount, vertexCount, hasNormals, hasTexcoords,
\* hasVertexColors, flipNormals, faceNormals), lines 38-53, with the
\* buffers filled in by the caller.
MakeMesh(name, positions, normals, texcoords, colors, triangles, flip, face) ==
    [name |-> name, vertexCount |-> Len(positions),
     triangleCount |-> Len(triangles), faceNormals |-> face,
     flipNormals |-> flip, positions |-> positions, normals |-> normals,
     texcoords |-> texcoords, colors |-> colors, tangents |-> None,
     aabb |-> None, triangles |-> triangles]

(***************************************************************************)
(* The meshes rebuildTopology is applied to.                               *)
(***************************************************************************)
MaxTopoTris == 2       \* most triangles of a rebuilt mesh

\* Four vertices: in general position; with vertex 3 on top of vertex 0;
\* and two long thin triangles over one edge whose planes differ slightly.
Layouts ==
    { << <<0, 0, 0>>, <<1, 0, 0>>, <<0, 1, 0>>, <<0, 0, 1>> >>,
      << <<0, 0, 0>>, <<1, 0, 0>>, <<0, 1, 0>>, <<0, 0, 0>> >>,
      << <<0, 0, 0>>, <<0, 0, 1>>, <<2, 0 - 10000, 0>>, <<3, 0 - 10000, 0>> >> }

\* <<texcoords, colors>>: neither, texcoords that differ on every vertex,
\* or colors that differ between vertex 0 and vertex 3.
AttributeLayouts ==
    { <<None, None>>,
      <<Some(<< <<0, 0>>, <<1, 0>>, <<0, 1>>, <<1, 1>> >>), None>>,
      <<None, Some(<< <<1, 1, 1>>, <<1, 1, 1>>, <<1, 1, 1>>, <<0, 0, 0>> >>)>> }

\* Triangles over the four vertices, both windings of one face and a
\* triangle that uses vertex 0 twice among them.
TrianglePool ==
    { <<0, 1, 2>>, <<0, 2, 1>>, <<0, 1, 3>>, <<0, 0, 1>> }

TriangleLists(n) == UNION {[1..k -> TrianglePool] : k \in 1..n}

\* Three faces around vertex 1 whose normals are (1,1,1), (0,0,1) and
\* (0,1,0) in the first layout: the first is within 60 degrees of each of
\* the others, which are 90 degrees apart.
CreaseFan == << <<1, 2, 3>>, <<0, 1, 2>>, <<0, 3, 1>> >>

\* Two faces that meet in vertices 1 and 2; in the second layout their
\* third corners, vertices 0 and 3, lie on one position.
SeamPair == << <<0, 1, 2>>, <<1, 2, 3>> >>

\* The crease angles, in degrees.
Angles == {0, 60, 180}

Materials ==
    { NoBSDF,
      [has |-> TRUE, anisotropic |-> FALSE, glossy |-> FALSE, rayDiff |-> TRUE] }

TopoInit ==
    /\ \E pos \in Layouts, attr \in AttributeLayouts,
          tris \in TriangleLists(MaxTopoTris) \cup {CreaseFan, SeamPair}, face \in BOOLEAN :
           mesh = MakeMesh("mesh", pos, None, attr[1], attr[2], tris, FALSE, face)
    /\ bsdf \in Materials
    /\ build \in {[asserts |-> a, double |-> FALSE] : a \in BOOLEAN}
    /\ call = NoCall
    /\ stream = <<>>
    /\ source = NoSource

\* A call of rebuildTopology(maxAngle) on the mesh.
RebuildTopologyStep(maxAngle) ==
    /\ call.status = "ok"
    /\ LET r == RebuildTopology(mesh, bsdf, maxAngle, build.asserts)
       IN  /\ mesh' = r.mesh
           /\ call' = [NoCall EXCEPT !.op = "rebuildTopology",
                                     !.status = r.status, !.n = call.n + 1,
                                     !.angle = maxAngle, !.before = mesh,
                                     !.remap = r.remap,
                                     !.newVertices = r.newVertices]
    /\ UNCHANGED <<bsdf, build, stream, source>>

RebuildOnce(maxAngle) ==
    /\ OnlyMesh
    /\ call.op = "none"
    /\ RebuildTopologyStep(maxAngle)

TopoNext == \E maxAngle \in Angles : RebuildOnce(maxAngle)

(***************************************************************************)
(* Streams.  A stream is the sequence of values written to it, each with   *)
(* the width it was written in: [t |-> type, v |-> value].  The part that  *)
(* goes through a ZStream is one value holding the sequence written into   *)
(* the compressed view.                                                    *)
(***************************************************************************)
\* enum ETriMeshFlags, lines 88-96
EHasNormals == 1
EHasTexcoords == 2
EHasTangents == 4
EHasColors == 8
EFaceNormals == 16
ESinglePrecision == 4096
EDoublePrecision == 8192

\* flags & bit
HasFlag(flags, bit) == (flags \div bit) % 2 = 1

\* flags |= bit when cond
FlagIf(cond, bit) == IF cond THEN bit ELSE 0

Token(t, v) == [t |-> t, v |-> v]

RECURSIVE Flatten(_)
\* reinterpret_cast<Float *>(array): the components, vertex after vertex.
Flatten(arr) == IF arr = <<>> THEN <<>> ELSE Head(arr) \o Flatten(Tail(arr))

\* The first count * nelems values read back as count vectors of nelems.
Reshape(flat, count, nelems) ==
    [i \in 1..count |-> [k \in 1..nelems |-> flat[(i - 1) * nelems + k]]]

RECURSIVE UlpOf(_, _)
\* The spacing of single-precision floats at magnitude a: the least power
\* of two u with a < 2^24 * u.
UlpOf(a, u) == IF a < 16777216 * u THEN u ELSE UlpOf(a, 2 * u)

\* (float) x for a double x holding an integer: round to 24 significant
\* bits, ties to even.
ToSingle(x) ==
    LET a == IF x < 0 THEN 0 - x ELSE x
        u == UlpOf(a, 1)
        q == a \div u
        r == a % u
        rounded == IF 2 * r > u \/ (2 * r = u /\ q % 2 = 1)
                   THEN (q + 1) * u ELSE q * u
    IN  IF x < 0 THEN 0 - rounded ELSE rounded

\* (double) x for a float x: every single is a double.
ToDouble(x) == x

\* Stream::writeFloatArray: Float is double or float as compiled.
FloatArray(flat, double) == Token(IF double THEN "double" ELSE "single", flat)

\* The vectors of the stored normals.
NormalVectors(m) == [i \in DOMAIN Get(m.normals) |-> Get(m.normals)[i].v]

\* lines 871-883 and 778-790: the arrays, in the order both writers emit
\* them.
WriteArrays(m, double) ==
    <<FloatArray(Flatten(m.positions), double)>>
    \o (IF Has(m.normals)
        THEN <<FloatArray(Flatten(NormalVectors(m)), double)>> ELSE <<>>)
    \o (IF Has(m.texcoords)
        THEN <<FloatArray(Flatten(Get(m.texcoords)), double)>> ELSE <<>>)
    \o (IF Has(m.colors)
        THEN <<FloatArray(Flatten(Get(m.colors)), double)>> ELSE <<>>)
    \o <<Token("uints", Flatten(m.triangles))>>

\* Presence flags that leave out the colors bit.
PresenceFlagsNoColors(m) ==
    FlagIf(Has(m.normals), EHasNormals) + FlagIf(Has(m.texcoords), EHasTexcoords)
    + FlagIf(m.faceNormals, EFaceNormals)

\* lines 857-864 and 764-771: the presence flags.
PresenceFlags(m) ==
    FlagIf(Has(m.normals), EHasNormals) + FlagIf(Has(m.texcoords), EHasTexcoords)
    + FlagIf(Has(m.colors), EHasColors) + FlagIf(m.faceNormals, EFaceNormals)

\* Standalone flags that leave out the face-normals bit.
StandaloneFlagsNoFaceBit(m, double) ==
    (IF double THEN EDoublePrecision ELSE ESinglePrecision)
    + FlagIf(Has(m.normals), EHasNormals) + FlagIf(Has(m.texcoords), EHasTexcoords)
    + FlagIf(Has(m.colors), EHasColors)

\* lines 851-864: the flags of the standalone form.
StandaloneFlags(m, double) ==
    (IF double THEN EDoublePrecision ELSE ESinglePrecision) + PresenceFlags(m)

\* TriMesh::serialize(Stream *), lines 847-883 (after the byte order check).
SerializeStandalone(m, double) ==
    << Token("short", MTS_FILEFORMAT_HEADER),
       Token("short", MTS_FILEFORMAT_VERSION_V4),
       Token("zstream",
             << Token("uint", StandaloneFlags(m, double)),
                Token("string", m.name),
                Token("size", m.vertexCount),
                Token("size", m.triangleCount) >>
             \o WriteArrays(m, double)) >>

\* TriMesh::serialize(Stream *, InstanceManager *), lines 761-791.
SerializeEmbedded(m, double) ==
    << Token("shape", "Shape::serialize"),
       Token("string", m.name),
       Token("aabb", m.aabb),
       Token("uint", PresenceFlags(m)),
       Token("size", m.vertexCount),
       Token("size", m.triangleCount) >>
    \o WriteArrays(m, double)

\* readHelper, lines 146-172: nelems floats for each of count vertices,
\* converted when the file's precision is not the host's.
ReadHelper(tok, fileDoublePrecision, hostDoublePrecision, count, nelems) ==
    LET size == count * nelems
        temp == SubSeq(tok.v, 1, size)
        target == IF fileDoublePrecision = hostDoublePrecision THEN temp
                  ELSE IF fileDoublePrecision
                  THEN [i \in 1..size |-> ToSingle(temp[i])]
                  ELSE [i \in 1..size |-> ToDouble(temp[i])]
    IN  Reshape(target, count, nelems)

\* The arrays as both readers pick them up (lines 233-279 and 107-139):
\* z is the stream, at its token `at` the positions start; convert is
\* whether the floats go through readHelper.
ReadArrays(m, z, at, flags, hostDouble, convert) ==
    LET fileDouble == IF convert THEN HasFlag(flags, EDoublePrecision)
                      ELSE hostDouble
        atNormals == at + 1
        atTexcoords == atNormals + FlagIf(HasFlag(flags, EHasNormals), 1)
        atColors == atTexcoords + FlagIf(HasFlag(flags, EHasTexcoords), 1)
        atTriangles == atColors + FlagIf(HasFlag(flags, EHasColors), 1)
        normals == ReadHelper(z[atNormals], fileDouble, hostDouble, m.vertexCount, 3)
    IN  [m EXCEPT
           !.faceNormals = HasFlag(flags, EFaceNormals),
           !.positions = ReadHelper(z[at], fileDouble, hostDouble, m.vertexCount, 3),
           !.normals = IF HasFlag(flags, EHasNormals)
                       THEN Some([i \in 1..m.vertexCount |-> FileNormal(normals[i])])
                       ELSE None,
           !.texcoords = IF HasFlag(flags, EHasTexcoords)
                         THEN Some(ReadHelper(z[atTexcoords], fileDouble,
                                              hostDouble, m.vertexCount, 2))
                         ELSE None,
           !.colors = IF HasFlag(flags, EHasColors)
                      THEN Some(ReadHelper(z[atColors], fileDouble, hostDouble,
                                           m.vertexCount, 3))
                      ELSE None,
           !.triangles = Reshape(z[atTriangles].v, m.triangleCount, 3),
           !.flipNormals = FALSE]

\* lines 178-194: the checks on the byte order and the two header shorts;
\* "none" when they pass.
HeaderError(little, format, version) ==
    IF ~little THEN "byteorder"
    ELSE IF format = LegacyHeader THEN "legacy"
    ELSE IF format # MTS_FILEFORMAT_HEADER THEN "format"
    ELSE IF version # MTS_FILEFORMAT_VERSION_V3
            /\ version # MTS_FILEFORMAT_VERSION_V4 THEN "version"
    ELSE "none"

\* loadCompressed(stream, 0) past the header, lines 221-282, on the object
\* m: the flags, the name in version 4, the counts, the arrays.
LoadCompressedBody(m, s, hostDouble) ==
    LET version == s[2].v
        z == s[3].v
        flags == z[1].v
        v4 == version = MTS_FILEFORMAT_VERSION_V4
        atCount == IF v4 THEN 3 ELSE 2
        sized == [m EXCEPT !.name = IF v4 THEN z[2].v ELSE @,
                           !.vertexCount = z[atCount].v,
                           !.triangleCount = z[atCount + 1].v]
    IN  ReadArrays(sized, z, atCount + 2, flags, hostDouble, TRUE)

\* TriMesh(Stream *, int) with index 0, lines 77-84: a fresh object filled
\* by loadCompressed.
LoadStandalone(s, hostDouble) == LoadCompressedBody(Unloaded, s, hostDouble)

\* The reads the embedded constructor issues, in order, each by the type
\* of value it asks the stream for (lines 99-139): the parent's data, the
\* name, the bounding box, the flags, the two counts and the arrays the
\* flags announce, floats in the host's width.
EmbeddedReads(s, hostDouble) ==
    LET flags == s[4].v
        floats == IF hostDouble THEN "double" ELSE "single"
    IN  <<"shape", "string", "aabb", "uint", "size", "size", floats>>
        \o (IF HasFlag(flags, EHasNormals) THEN <<floats>> ELSE <<>>)
        \o (IF HasFlag(flags, EHasTexcoords) THEN <<floats>> ELSE <<>>)
        \o (IF HasFlag(flags, EHasColors) THEN <<floats>> ELSE <<>>)
        \o <<"uints">>

\* TriMesh(Stream *, InstanceManager *), lines 98-142, before configure().
LoadEmbedded(s, hostDouble) ==
    LET sized == [Unloaded EXCEPT !.name = s[2].v, !.aabb = s[3].v,
                                  !.vertexCount = s[5].v,
                                  !.triangleCount = s[6].v]
    IN  ReadArrays(sized, s, 7, s[4].v, hostDouble, FALSE)

(***************************************************************************)
(* The standalone round trip: a mesh is written by the standalone          *)
(* serialize in one build and read back by the stream constructor with     *)
(* index 0 in a build of either precision.                                 *)
(***************************************************************************)
\* Three vertices; a double-precision build also holds coordinates that
\* are not single-precision values.
CodecPositions(double) ==
    { << <<0, 0, 0>>, <<1, 0, 0>>, <<0, 1, 0>> >> }
    \cup (IF double
          THEN { << <<0, 0, 0>>, <<16777217, 0, 0>>, <<0 - 16777219, 1, 0>> >> }
          ELSE {})

CodecTriangles == { << <<0, 1, 2>> >>, << <<0, 1, 2>>, <<2, 1, 0>> >> }

CodecNormals ==
    { None, Some(<< FileNormal(<<0, 0, 1>>), FileNormal(<<0, 0, 1>>),
                    FileNormal(<<0, 1, 0>>) >>) }

CodecTexcoords == { None, Some(<< <<0, 0>>, <<1, 0>>, <<0, 1>> >>) }

CodecColors == { None, Some(<< <<1, 0, 0>>, <<0, 1, 0>>, <<0, 0, 1>> >>) }

\* The mesh as built, and with its tangent frames computed when asked.
CodecMesh(name, pos, nrm, uv, col, tris, face, withTangents) ==
    LET m == MakeMesh(name, pos, nrm, uv, col, tris, FALSE, face)
    IN  IF withTangents THEN ComputeUVTangents(m, NoBSDF).mesh ELSE m

CodecInit ==
    /\ \E double \in BOOLEAN :
          /\ build = [asserts |-> TRUE, double |-> double]
          /\ \E name \in {"", "mesh"}, pos \in CodecPositions(double),
                nrm \in CodecNormals, uv \in CodecTexcoords,
                col \in CodecColors, tris \in CodecTriangles,
                face \in BOOLEAN, withTangents \in BOOLEAN :
                 mesh = CodecMesh(name, pos, nrm, uv, col, tris, face,
                                  withTangents)
    /\ bsdf = NoBSDF
    /\ call = NoCall
    /\ stream = <<>>
    /\ source \in {[form |-> "standalone", payload |-> Unloaded, little |-> l]
                      : l \in BOOLEAN}
                  \cup {[form |-> "embedded", payload |-> Unloaded,
                         little |-> TRUE]}

\* serialize(Stream *), lines 840-884.
SerializeCall ==
    /\ OnlyMesh
    /\ call.op = "none"
    /\ source.form = "standalone"
    /\ IF ~source.little
       THEN /\ call' = [NoCall EXCEPT !.op = "serialize", !.status = "fatal",
                                      !.n = 1, !.before = mesh]
            /\ UNCHANGED stream
       ELSE /\ call' = [NoCall EXCEPT !.op = "serialize", !.n = 1,
                                      !.before = mesh]
            /\ stream' = SerializeStandalone(mesh, build.double)
    /\ UNCHANGED <<mesh, bsdf, build, source>>

\* new TriMesh(stream, 0) on the stream written, in a build whose Float is
\* double (hostDouble) or float.
DecodeCall(hostDouble) ==
    /\ OnlyMesh
    /\ call.op = "serialize"
    /\ call.status = "ok"
    /\ LET err == HeaderError(source.little, stream[1].v, stream[2].v)
       IN  IF err # "none"
           THEN /\ call' = [NoCall EXCEPT !.op = "loadCompressed",
                                          !.status = "fatal", !.n = 2,
                                          !.before = mesh]
                /\ mesh' = Unloaded
           ELSE /\ call' = [NoCall EXCEPT !.op = "loadCompressed", !.n = 2,
                                          !.before = mesh]
                /\ mesh' = LoadStandalone(stream, hostDouble)
    /\ build' = [build EXCEPT !.double = hostDouble]
    /\ UNCHANGED <<bsdf, stream, source>>

\* serialize(Stream *, InstanceManager *), lines 761-791.
SerializeEmbeddedCall ==
    /\ OnlyMesh
    /\ call.op = "none"
    /\ source.form = "embedded"
    /\ call' = [NoCall EXCEPT !.op = "serializeEmbedded", !.n = 1,
                              !.before = mesh]
    /\ stream' = SerializeEmbedded(mesh, build.double)
    /\ UNCHANGED <<mesh, bsdf, build, source>>

\* new TriMesh(stream, manager) on the stream written, in the same build,
\* lines 98-144, configure() included.
DecodeEmbeddedCall ==
    /\ OnlyMesh
    /\ call.op = "serializeEmbedded"
    /\ LET r == Configure(LoadEmbedded(stream, build.double), bsdf)
       IN  /\ mesh' = r.mesh
           /\ call' = [NoCall EXCEPT !.op = "loadEmbedded", !.status = r.status,
                                     !.n = 2, !.before = mesh,
                                     !.reads = EmbeddedReads(stream, build.double)]
    /\ UNCHANGED <<bsdf, build, stream, source>>

CodecNext ==
    \/ SerializeCall
    \/ \E hostDouble \in BOOLEAN : DecodeCall(hostDouble)
    \/ SerializeEmbeddedCall
    \/ DecodeEmbeddedCall

(***************************************************************************)
(* The life of a mesh: construction (from buffers, from the embedded form, *)
(* from the standalone form) and then calls of configure, computeNormals,  *)
(* computeUVTangents and rebuildTopology.  A call that ends in an error    *)
(* ends the behaviour.                                                     *)
(***************************************************************************)
MaxOps == 2            \* calls made on a mesh, its construction included

\* What the buffers or the stream hold: vertices in general position or
\* with vertex 3 on vertex 0, and among the triangle lists one with a
\* zero-area triangle and one whose last index is the vertex count.
PayloadTriangles ==
    { << <<0, 1, 2>> >>, << <<0, 1, 2>>, <<0, 2, 1>> >>, << <<0, 0, 1>> >>,
      << <<0, 1, 2>>, <<1, 2, 4>> >> }

PayloadPositions ==
    { << <<0, 0, 0>>, <<1, 0, 0>>, <<0, 1, 0>>, <<0, 0, 1>> >>,
      << <<0, 0, 0>>, <<1, 0, 0>>, <<0, 1, 0>>, <<0, 0, 0>> >> }

PayloadNormals ==
    { None, Some(<< FileNormal(<<0, 0, 1>>), FileNormal(<<0, 0, 1>>),
                    FileNormal(<<0, 0, 1>>), FileNormal(<<0, 1, 0>>) >>) }

\* The second parameterization maps vertices 0, 1 and 2 onto one line of
\* UV space.
PayloadTexcoords ==
    { None, Some(<< <<0, 0>>, <<1, 0>>, <<0, 1>>, <<1, 1>> >>),
      Some(<< <<0, 0>>, <<1, 0>>, <<2, 0>>, <<1, 1>> >>) }

Payloads(flips) ==
    { MakeMesh("mesh", pos, nrm, uv, None, tris, flip, face) :
        pos \in PayloadPositions, nrm \in PayloadNormals,
        uv \in PayloadTexcoords, tris \in PayloadTriangles,
        flip \in flips, face \in BOOLEAN }

\* A loader fills a buffer-constructed mesh and may ask for flipped normals;
\* the stream forms do not carry the request.
Sources ==
    {[form |-> "buffers", payload |-> p, little |-> TRUE] : p \in Payloads(BOOLEAN)}
    \cup {[form |-> f, payload |-> p, little |-> TRUE] :
             f \in {"embedded", "standalone"}, p \in Payloads({FALSE})}

LifeMaterials ==
    { NoBSDF,
      [has |-> TRUE, anisotropic |-> TRUE, glossy |-> FALSE, rayDiff |-> FALSE],
      [has |-> TRUE, anisotropic |-> FALSE, glossy |-> TRUE, rayDiff |-> FALSE] }

LifeInit ==
    /\ source \in Sources
    /\ stream = IF source.form = "embedded"
                THEN SerializeEmbedded(source.payload, FALSE)
                ELSE IF source.form = "standalone"
                THEN SerializeStandalone(source.payload, FALSE)
                ELSE <<>>
    /\ mesh = Unloaded
    /\ bsdf \in LifeMaterials
    /\ build \in {[asserts |-> a, double |-> FALSE] : a \in BOOLEAN}
    /\ call = NoCall

\* The record of a call that was made on mesh m and ended with status.
Called(op, status, m) ==
    [NoCall EXCEPT !.op = op, !.status = status, !.n = call.n + 1, !.before = m]

\* The constructing call, whichever it is.
Constructing == call.op = "none" /\ mesh = Unloaded

\* A further call on a constructed mesh.
Callable == call.op # "none" /\ call.status = "ok" /\ call.n < MaxOps

\* TriMesh(name, ...), lines 38-53, and the caller filling the buffers.
ConstructFromBuffers ==
    /\ OnlyMesh
    /\ Constructing
    /\ source.form = "buffers"
    /\ mesh' = source.payload
    /\ call' = Called("construct", "ok", mesh)
    /\ UNCHANGED <<bsdf, build, stream, source>>

\* TriMesh(Stream *, InstanceManager *), lines 98-144, configure() included.
ConstructEmbedded ==
    /\ OnlyMesh
    /\ Constructing
    /\ source.form = "embedded"
    /\ LET r == Configure(LoadEmbedded(stream, build.double), bsdf)
       IN  /\ mesh' = r.mesh
           /\ call' = Called("loadEmbedded", r.status, mesh)
    /\ UNCHANGED <<bsdf, build, stream, source>>

\* TriMesh(Stream *, int) with index 0, lines 77-84.
ConstructStandalone ==
    /\ OnlyMesh
    /\ Constructing
    /\ source.form = "standalone"
    /\ LET err == HeaderError(source.little, stream[1].v, stream[2].v)
       IN  IF err # "none"
           THEN /\ mesh' = Unloaded
                /\ call' = Called("loadStandalone", "fatal", mesh)
           ELSE /\ mesh' = LoadStandalone(stream, build.double)
                /\ call' = Called("loadStandalone", "ok", mesh)
    /\ UNCHANGED <<bsdf, build, stream, source>>

\* configure(), lines 312-337.
ConfigureCall ==
    /\ OnlyMesh
    /\ Callable
    /\ LET r == Configure(mesh, bsdf)
       IN  /\ mesh' = r.mesh
           /\ call' = Called("configure", r.status, mesh)
    /\ UNCHANGED <<bsdf, build, stream, source>>

\* computeNormals(), lines 544-616.
ComputeNormalsCall ==
    /\ OnlyMesh
    /\ Callable
    /\ IF ComputeNormalsDefined(mesh)
       THEN /\ mesh' = ComputeNormals(mesh)
            /\ call' = Called("computeNormals", "ok", mesh)
       ELSE /\ mesh' = mesh
            /\ call' = Called("computeNormals", "undefined", mesh)
    /\ UNCHANGED <<bsdf, build, stream, source>>

\* computeUVTangents(), lines 618-675.
ComputeUVTangentsCall ==
    /\ OnlyMesh
    /\ Callable
    /\ IF ComputeUVTangentsDefined(mesh)
       THEN LET r == ComputeUVTangents(mesh, bsdf)
            IN  /\ mesh' = r.mesh
                /\ call' = [Called("computeUVTangents",
                                   IF r.fatal THEN "fatal" ELSE "ok", mesh)
                               EXCEPT !.degenerate = r.degenerate]
       ELSE /\ mesh' = mesh
            /\ call' = Called("computeUVTangents", "undefined", mesh)
    /\ UNCHANGED <<bsdf, build, stream, source>>

\* rebuildTopology(maxAngle), lines 418-542.
RebuildTopologyCall(maxAngle) ==
    /\ OnlyMesh
    /\ Callable
    /\ RebuildTopologyStep(maxAngle)

LifeNext ==
    \/ ConstructFromBuffers
    \/ ConstructEmbedded
    \/ ConstructStandalone
    \/ ConfigureCall
    \/ ComputeNormalsCall
    \/ ComputeUVTangentsCall
    \/ \E maxAngle \in Angles : RebuildTopologyCall(maxAngle)

(***************************************************************************)
(* Specifications                                                          *)
(***************************************************************************)
InitLoad == LoaderInit /\ SamplerIdle /\ MeshIdle

SpecLoad == InitLoad /\ [][LoadNext]_vars

InitSample == LoaderIdle /\ SamplerInit /\ MeshIdle

SpecSample == InitSample /\ [][SampleNext]_vars

InitTopo == LoaderIdle /\ SamplerIdle /\ TopoInit

SpecTopo == InitTopo /\ [][TopoNext]_vars

InitCodec == LoaderIdle /\ SamplerIdle /\ CodecInit

SpecCodec == InitCodec /\ [][CodecNext]_vars

InitLife == LoaderIdle /\ SamplerIdle /\ LifeInit

SpecLife == InitLife /\ [][LifeNext]_vars

(***************************************************************************)
(* Claims                                                                  *)
(***************************************************************************)

\* The indices the claim calls out of range: outside [0, count).
OutsideSegments(index, count) == index < 0 \/ index >= count

\* C1: loadCompressed(stream, index) on an archive of count segments ends in
\* a fatal error for every index outside [0, count), index = count included,
\* and then never seeks to an offset read from the table nor opens and reads
\* a mesh body.
C1_OutOfRangeIndexIsFatal ==
    (loader.pc = "done" /\ OutsideSegments(loader.index, loader.count))
        => /\ loader.fatal # "none"
           /\ loader.segmentSeek < 0
           /\ loader.opened < 0

\* C2: every samplePosition call that returns reports the density
\* 1/surfaceArea of the built distribution and sampled from the complete
\* distribution, and every getSurfaceArea call that returns reports the
\* built area: no caller observes the sentinel or a partly built value.
C2_CallersSeeBuiltValues ==
    \A t \in DOMAIN th :
        /\ th[t].last.op = "samplePosition"
              => /\ th[t].last.pdf = Reciprocal(SumSeq(triAreas))
                 /\ th[t].last.distLen = Len(triAreas)
        /\ th[t].last.op = "getSurfaceArea"
              => th[t].last.area = SumSeq(triAreas)

\* C3: the area distribution is built at most once: at most one caller
\* enters the build, a caller holding the lock after the build finds
\* m_surfaceArea non-negative and does no work, and once built the
\* distribution holds exactly triangleCount entries.
C3_BuiltAtMostOnce ==
    /\ Len(builders) <= 1
    /\ Len(m_areaDistr) <= Len(triAreas)
    /\ m_surfaceArea >= 0
          => /\ Len(builders) = 1
             /\ m_areaDistr = triAreas
             /\ \A t \in DOMAIN th : th[t].pc = "append" => builders = <<t>>
    /\ \A t \in DOMAIN th :
          (th[t].pc = "locked" /\ builders # <<>>) => m_surfaceArea >= 0

\* C3's case: two workers took the lock, one built, the other found the
\* distribution built.
C3_Witness ==
    /\ Len(triAreas) >= 2
    /\ m_surfaceArea >= 0
    /\ \E t, u \in DOMAIN th :
          /\ t # u
          /\ builders = <<t>>
          /\ th[u].pc = "unlock"
          /\ th[t].pc \in {"use", "idle", "pdf"}

\* The corners of the mesh a rebuildTopology call was applied to.
Corners(m) == (DOMAIN m.triangles) \X (1..3)

\* C4: after rebuildTopology on a mesh whose indices are in range, for any
\* crease angle, every corner index is below the new vertex count, no corner
\* holds the unassigned sentinel and the assertion after the clustering
\* loop does not fire.
C4_EveryCornerAssigned ==
    (call.op = "rebuildTopology" /\ IndicesInRange(call.before))
        => /\ call.status # "assert"
           /\ \A c \in Corners(call.before) :
                 /\ call.remap[c[1]][c[2]] # Unassigned
                 /\ call.remap[c[1]][c[2]] < Len(call.newVertices)

\* No triangle of the mesh has a zero-length cross product.
NoZeroAreaTriangle(m) ==
    \A i \in DOMAIN m.triangles : ~IsZero(FaceCross(m, i))

\* C5: rebuildTopology with crease angle 180 emits one vertex per distinct
\* (position, uv, color) key: corners with equal keys get the same new
\* index whatever their face normals are, opposite ones included.  Stated
\* for meshes without zero-area triangles.
C5_FullAngleMergesEqualKeys ==
    (call.op = "rebuildTopology" /\ call.angle = 180
        /\ IndicesInRange(call.before) /\ NoZeroAreaTriangle(call.before))
        => /\ Len(call.newVertices) =
                 Cardinality({VertexKey(call.before,
                                        call.before.triangles[c[1]][c[2]]) :
                                 c \in Corners(call.before)})
           /\ \A c, d \in Corners(call.before) :
                 VertexKey(call.before, call.before.triangles[c[1]][c[2]])
                    = VertexKey(call.before, call.before.triangles[d[1]][d[2]])
                 => call.remap[c[1]][c[2]] = call.remap[d[1]][d[2]]

\* C6: rebuildTopology with crease angle 0 gives two corners the same
\* output vertex only when their triangles have identical face normals and
\* the corners have identical keys.
C6_ZeroAngleKeepsDifferingNormalsApart ==
    (call.op = "rebuildTopology" /\ call.angle = 0
        /\ IndicesInRange(call.before))
        => \A c, d \in Corners(call.before) :
              (call.remap[c[1]][c[2]] # Unassigned
                 /\ call.remap[c[1]][c[2]] = call.remap[d[1]][d[2]])
              => /\ FloatEqual3(NormalizeF(FaceCross(call.before, c[1])),
                                NormalizeF(FaceCross(call.before, d[1])))
                 /\ VertexKey(call.before, call.before.triangles[c[1]][c[2]])
                      = VertexKey(call.before, call.before.triangles[d[1]][d[2]])

\* The flags the standalone writer put into the stream.
WrittenFlags == stream[3].v[1].v

\* A float written by a build of one width as a build of the other holds it.
AsRead(x, fromDouble, toDouble) ==
    IF fromDouble /\ ~toDouble THEN ToSingle(x) ELSE x

ArrayAsRead(arr, fromDouble, toDouble) ==
    [i \in DOMAIN arr |->
        [k \in DOMAIN arr[i] |-> AsRead(arr[i][k], fromDouble, toDouble)]]

\* The written header is 0x041C, version 4; the flags carry one precision
\* bit and not the hasTangents bit.
HeaderAsSpecified ==
    /\ stream[1] = Token("short", MTS_FILEFORMAT_HEADER)
    /\ stream[2] = Token("short", MTS_FILEFORMAT_VERSION_V4)
    /\ HasFlag(WrittenFlags, ESinglePrecision) # HasFlag(WrittenFlags, EDoublePrecision)
    /\ ~HasFlag(WrittenFlags, EHasTangents)

\* Counts, name, face-normals flag, presence of the attribute arrays and
\* the triangles of the decoded mesh d are those of the encoded mesh e.
SameShape(d, e) ==
    /\ d.vertexCount = e.vertexCount
    /\ d.triangleCount = e.triangleCount
    /\ d.name = e.name
    /\ d.faceNormals = e.faceNormals
    /\ Has(d.normals) = Has(e.normals)
    /\ Has(d.texcoords) = Has(e.texcoords)
    /\ Has(d.colors) = Has(e.colors)
    /\ d.triangles = e.triangles

\* The float arrays of d are those of e as a build of width toDouble reads
\* what a build of width fromDouble wrote.
SameFloats(d, e, fromDouble, toDouble) ==
    /\ d.positions = ArrayAsRead(e.positions, fromDouble, toDouble)
    /\ Has(e.normals) =>
          NormalVectors(d) = ArrayAsRead(NormalVectors(e), fromDouble, toDouble)
    /\ Has(e.texcoords) =>
          Get(d.texcoords) = ArrayAsRead(Get(e.texcoords), fromDouble, toDouble)
    /\ Has(e.colors) =>
          Get(d.colors) = ArrayAsRead(Get(e.colors), fromDouble, toDouble)

Written == call.op \in {"serialize", "loadCompressed"} /\ call.status = "ok"

Decoded == call.op = "loadCompressed" /\ call.status = "ok"

\* C7 (as amended): the standalone serialize writes magic 0x041C, version 4
\* and flags with exactly one precision bit and never hasTangents; decoding
\* with loadCompressed(stream, 0) reproduces counts, name, face-normals
\* flag, attribute presence and the triangles, and reproduces positions and
\* attribute arrays exactly when the decoding build's floats are at least
\* as wide as the encoder's; a single-precision build decoding a
\* double-precision stream gets every value rounded to single precision.
C7_RoundTripUpToFloatWidth ==
    /\ Written => HeaderAsSpecified
    /\ Decoded =>
          /\ SameShape(mesh, call.before)
          /\ SameFloats(mesh, call.before,
                        HasFlag(WrittenFlags, EDoublePrecision), build.double)

\* C7's case: a mesh with every attribute, written in double precision and
\* decoded in single precision, with a coordinate that changed.
C7_Witness ==
    /\ Decoded
    /\ HasFlag(WrittenFlags, EDoublePrecision) /\ ~build.double
    /\ Has(mesh.normals) /\ Has(mesh.texcoords) /\ Has(mesh.colors)
    /\ mesh.faceNormals /\ Has(call.before.tangents)
    /\ mesh.positions # call.before.positions

\* C7 (as stated): decoding reproduces the same positions and attribute
\* arrays, whatever the builds of encoder and decoder.
C7_RoundTripExact ==
    /\ Written => HeaderAsSpecified
    /\ Decoded =>
          /\ SameShape(mesh, call.before)
          /\ SameFloats(mesh, call.before, FALSE, FALSE)

\* C8: flipNormalsRequested is false after every computeNormals call,
\* whichever branch ran, and so after every configure and rebuildTopology
\* call (and the embedded constructor's configure) that got as far as its
\* computeNormals.
C8_FlipClearedByComputeNormals ==
    (call.op \in {"computeNormals", "configure", "rebuildTopology", "loadEmbedded"}
        /\ call.status \in {"ok", "fatal"})
        => ~mesh.flipNormals

\* C8's case: computeNormals ran its face-normals branch with a flip
\* requested and stored normals present.
C8_Witness ==
    /\ call.op = "computeNormals"
    /\ call.status = "ok"
    /\ call.before.flipNormals
    /\ call.before.faceNormals
    /\ Has(call.before.normals)

\* C9: in every state reached by loading (embedded or standalone form),
\* computeNormals, configure and rebuildTopology, every index of every
\* triangle is below vertexCount.
C9_IndicesAlwaysInRange ==
    (source.form \in {"embedded", "standalone"}
        /\ call.op \in {"loadEmbedded", "loadStandalone", "computeNormals",
                        "configure", "rebuildTopology"}
        /\ call.status = "ok")
        => IndicesInRange(mesh)

\* C10: computeUVTangents on a mesh without texcoords ends in the fatal
\* error exactly when an attached material is anisotropic; otherwise it
\* returns normally, the mesh unchanged and without tangent frames.
C10_TexcoordlessTangents ==
    (call.op = "computeUVTangents" /\ ~Has(call.before.texcoords))
        => /\ (call.status = "fatal") <=> (bsdf.has /\ bsdf.anisotropic)
           /\ call.status \in {"ok", "fatal"}
           /\ call.status = "ok" => (~Has(mesh.tangents) /\ mesh = call.before)

\* C10's case: the call on a texcoord-less mesh with an anisotropic material.
C10_Witness ==
    /\ call.op = "computeUVTangents"
    /\ ~Has(call.before.texcoords)
    /\ bsdf.has /\ bsdf.anisotropic
    /\ call.status = "fatal"

\* The types of the values in the stream, in the order written.
WrittenTypes == [i \in DOMAIN stream |-> stream[i].t]

\* The width serialize writes floats in.
HostFloats == IF build.double THEN "double" ELSE "single"

\* The arrays after the counts: positions, then normals, texcoords and
\* colors when the mesh e has them, then the triangle indices.
ArrayTypes(e) ==
    <<HostFloats>>
    \o (IF Has(e.normals) THEN <<HostFloats>> ELSE <<>>)
    \o (IF Has(e.texcoords) THEN <<HostFloats>> ELSE <<>>)
    \o (IF Has(e.colors) THEN <<HostFloats>> ELSE <<>>)
    \o <<"uints">>

EmbeddedWritten ==
    call.op \in {"serializeEmbedded", "loadEmbedded"} /\ source.form = "embedded"

\* C11 (as amended): the embedded form written by serialize(Stream,
\* InstanceManager) consists, after the parent shape data, of the name, the
\* bounding box, the flags, vertexCount, triangleCount and then the arrays
\* in the order positions, normals (if present), texcoords (if present),
\* colors (if present), triangle indices; the embedded-form reader
\* consumes exactly this field sequence and gets the name written.
C11_EmbeddedFormHasNameAndBox ==
    /\ EmbeddedWritten =>
          /\ WrittenTypes = <<"shape", "string", "aabb", "uint", "size", "size">>
                               \o ArrayTypes(call.before)
          /\ stream[2].v = call.before.name
          /\ stream[3].v = call.before.aabb
    /\ (EmbeddedWritten /\ call.op = "loadEmbedded") =>
          /\ call.reads = WrittenTypes
          /\ mesh.name = call.before.name
          /\ mesh.vertexCount = call.before.vertexCount
          /\ mesh.triangles = call.before.triangles

\* C11's case: a named mesh with every attribute array was written in the
\* embedded form and read back.
C11_Witness ==
    /\ EmbeddedWritten
    /\ call.op = "loadEmbedded"
    /\ call.before.name = "mesh"
    /\ Has(call.before.normals) /\ Has(call.before.texcoords)
    /\ Has(call.before.colors)

\* C11 (as stated): after the parent shape data the embedded form is
\* exactly flags, vertexCount, triangleCount and the arrays, with no name
\* field, and the reader consumes the same sequence.
C11_EmbeddedFormHasNoName ==
    /\ EmbeddedWritten =>
          WrittenTypes = <<"shape", "uint", "size", "size">>
                            \o ArrayTypes(call.before)
    /\ (EmbeddedWritten /\ call.op = "loadEmbedded") =>
          call.reads = WrittenTypes

\* A call that ran computeNormals to its end.
RanComputeNormals ==
    /\ call.op \in {"computeNormals", "configure", "rebuildTopology"}
    /\ call.status \in {"ok", "fatal"}

\* C12 (as amended): faceNormalsRequested is a persistent property of the
\* mesh: computeNormals reads it and leaves it as it found it, so after
\* every computeNormals call (and every configure and rebuildTopology call)
\* it is set exactly when it was set before, and the flags a serialize
\* writes afterwards carry the face-normals bit exactly then.
C12_FaceNormalsPersist ==
    RanComputeNormals =>
        /\ mesh.faceNormals = call.before.faceNormals
        /\ HasFlag(PresenceFlags(mesh), EFaceNormals) = call.before.faceNormals
        /\ mesh.faceNormals => ~Has(mesh.normals)

\* C12's case: computeNormals found the request set, ran its face-normals
\* branch and returned.
C12_Witness ==
    /\ call.op = "computeNormals"
    /\ call.status = "ok"
    /\ call.before.faceNormals
    /\ Has(call.before.normals)
    /\ ~Has(mesh.normals)

\* C12 (as stated): a computeNormals call that finds faceNormalsRequested
\* set leaves it cleared, so it is false after every computeNormals call
\* and the flags written by a later serialize do not carry it.
C12_FaceNormalsCleared ==
    RanComputeNormals =>
        /\ ~mesh.faceNormals
        /\ ~HasFlag(PresenceFlags(mesh), EFaceNormals)

\* A computeUVTangents call that built the frames of a mesh with texcoords
\* and no frames.
BuiltTangents ==
    /\ call.op = "computeUVTangents"
    /\ call.status = "ok"
    /\ Has(call.before.texcoords)
    /\ ~Has(call.before.tangents)
    /\ Has(mesh.tangents)

\* The triangles of the mesh the call was made on with a zero-length
\* geometric normal, and those with a zero UV determinant.
ZeroNormal(i) == IsZero(FaceCross(call.before, i))
ZeroDeterminant(i) == UVDeterminant(call.before, i) = 0

Clustered == call.op = "rebuildTopology" /\ IndicesInRange(call.before)

\* The output vertex of corner c, and whether c and d share one.
RemappedTo(c) == call.remap[c[1]][c[2]]
SameOutputVertex(c, d) ==
    RemappedTo(c) # Unassigned /\ RemappedTo(c) = RemappedTo(d)

\* The face normals of triangles i and k are within the crease angle of
\* the call, by the comparison of line 498.
WithinCrease(i, k) ==
    LET n1 == FaceCross(call.before, i)
        n2 == FaceCross(call.before, k)
    IN  \/ FloatEqual3(NormalizeF(n1), NormalizeF(n2))
        \/ FloatGreater(DotF(n1, n2), CosF(call.angle))

\* The first triangle, in index order, with a corner on the output vertex
\* of corner c: the seed of its cluster.
SeedOf(c) ==
    CHOOSE i \in DOMAIN call.before.triangles :
        /\ \E j \in 1..3 : RemappedTo(<<i, j>>) = RemappedTo(c)
        /\ \A d \in Corners(call.before) :
              RemappedTo(d) = RemappedTo(c) => i <= d[1]

\* C14 (as amended): after rebuildTopology with crease angle A, any two
\* corners remapped to the same output vertex have the same key and belong
\* to triangles whose face normals are each within A of the face normal of
\* the cluster's seed, the first triangle of the cluster; they need not be
\* within A of each other.
C14_WithinCreaseOfSeed ==
    Clustered =>
        \A c, d \in Corners(call.before) :
            SameOutputVertex(c, d) =>
                /\ WithinCrease(SeedOf(c), c[1])
                /\ WithinCrease(SeedOf(c), d[1])
                /\ VertexKey(call.before, call.before.triangles[c[1]][c[2]])
                     = VertexKey(call.before, call.before.triangles[d[1]][d[2]])

\* C14's case: two corners share an output vertex although their faces
\* are further apart than the crease angle.
C14_Witness ==
    /\ Clustered
    /\ call.status = "ok"
    /\ call.angle = 60
    /\ \E c, d \in Corners(call.before) :
          SameOutputVertex(c, d) /\ ~WithinCrease(c[1], d[1])

\* C14 (as stated): any two corners remapped to the same output vertex
\* belong to triangles whose face normals are within A of each other,
\* pairwise.
C14_PairwiseWithinCrease ==
    Clustered =>
        \A c, d \in Corners(call.before) :
            SameOutputVertex(c, d) => WithinCrease(c[1], d[1])

\* A rebuildTopology call that returned.
RebuildReturned == call.op = "rebuildTopology" /\ call.status = "ok"

\* Corner c of the rebuilt mesh refers to an output vertex that carries the
\* position, uv and color of the corner's vertex in the mesh the call was
\* made on.
CornerPreserved(c) ==
    LET old == call.before.triangles[c[1]][c[2]]
        new == mesh.triangles[c[1]][c[2]]
    IN  /\ new < mesh.vertexCount
        /\ mesh.positions[new + 1] = call.before.positions[old + 1]
        /\ Has(call.before.texcoords) =>
              Get(mesh.texcoords)[new + 1] = Get(call.before.texcoords)[old + 1]
        /\ Has(call.before.colors) =>
              Get(mesh.colors)[new + 1] = Get(call.before.colors)[old + 1]

====
